---- MODULE Spec2Model ----
(***************************************************************************)
(* A model of afternic_analytics.py: the CSV loader, the cleaner, the      *)
(* feature deriver, the reporter, the heuristic filter and main().         *)
(*                                                                         *)
(* DataFrames are objects on a heap (a sequence of tables; a reference is  *)
(* an index, 0 is None), so that "returns a new frame" and "changes the    *)
(* frame in place" are different things.  A table is a set of column names *)
(* and a sequence of rows; a row carries its index label and one cell per  *)
(* column.                                                                 *)
(***************************************************************************)
EXTENDS Integers, Sequences, FiniteSets, TLC

VARIABLES csv,        \* the file at csv_file_path (or no file)
          heap,       \* the DataFrame objects allocated so far
          pc,         \* main()'s position
          df,         \* main()'s local df (a reference)
          suggested,  \* main()'s local suggested (a reference)
          stdout,     \* what has been printed
          raised,     \* the exception that ended main(), if any
          probe       \* the last direct call of a function of the module

vars == <<csv, heap, pc, df, suggested, stdout, raised, probe>>

-----------------------------------------------------------------------------
(* Bounds of the model.                                                    *)

MaxRows == 2

-----------------------------------------------------------------------------
(* Cell values.                                                            *)

NaN == [t |-> "nan"]
NaT == [t |-> "nat"]
Num(n) == [t |-> "num", n |-> n]
Str(s) == [t |-> "str", s |-> s]
Date(y, d) == [t |-> "date", year |-> y, days |-> d]

\* pandas' isna / notnull on one value
isna(c) == c.t \in {"nan", "nat"}

\* Text that parses as a number, with the number.
NumericLiteral ==
    ("2" :> 2) @@ ("30" :> 30) @@ ("50" :> 50) @@
    ("80" :> 80) @@ ("100" :> 100) @@ ("600" :> 600)

\* Text that parses as a date, with its year and its day number since the epoch.
DateLiteral ==
    ("2015-01-01" :> Date(2015, 16436)) @@
    ("2024-01-01" :> Date(2024, 19723)) @@ ("2024-01-11" :> Date(2024, 19733))

\* pd.to_datetime(x, errors='coerce') on one value
to_datetime(c) ==
    CASE c.t = "str"  -> IF c.s \in DOMAIN DateLiteral THEN DateLiteral[c.s] ELSE NaT
      [] c.t = "nan"  -> NaT
      [] c.t = "nat"  -> NaT
      [] c.t = "date" -> c
      [] c.t = "num"  -> Date(1970, 0)

\* pd.to_numeric(x, errors='coerce') on one value
to_numeric(c) ==
    CASE c.t = "str" -> IF c.s \in DOMAIN NumericLiteral THEN Num(NumericLiteral[c.s]) ELSE NaN
      [] c.t = "nan" -> NaN
      [] c.t = "num" -> c

-----------------------------------------------------------------------------
(* Tables.                                                                 *)

Table(cols, rows) == [columns |-> cols, rows |-> rows]
Row(i, cells) == [idx |-> i, cells |-> cells]

\* pd.DataFrame(): no columns, no rows
EmptyDataFrame == Table({}, <<>>)

-----------------------------------------------------------------------------
(* The files main() may find.                                              *)

AllColumns == {"url", "price", "startPrice", "registeredDate", "bidCount",
               "ahrefsDomainRating", "startDate", "endDate"}

RowA == [url |-> "ab.com", price |-> "100", startPrice |-> "80",
         registeredDate |-> "2015-01-01", bidCount |-> "2",
         ahrefsDomainRating |-> "30", startDate |-> "2024-01-01",
         endDate |-> "2024-01-11"]

\* A field of RowA replaced: an empty field, text that does not parse, or
\* another value.
Edits ==
    { <<"price", "">>, <<"price", "abc">>, <<"price", "600">>,
      <<"startPrice", "">>, <<"startPrice", "abc">>,
      <<"registeredDate", "">>, <<"registeredDate", "notadate">>,
      <<"bidCount", "abc">>,
      <<"ahrefsDomainRating", "">>, <<"ahrefsDomainRating", "abc">>,
      <<"ahrefsDomainRating", "50">>,
      <<"url", "">>, <<"endDate", "notadate">> }

RowPool == {RowA} \cup {[RowA EXCEPT ![e[1]] = e[2]] : e \in Edits}

\* Files with some column missing hold rows of this smaller pool.
SmallPool == {RowA, [RowA EXCEPT !["price"] = "600"]}

ColumnSets ==
    { AllColumns \ {c} : c \in {"ahrefsDomainRating", "price", "url",
                                 "bidCount", "startDate"} }
    \cup {{"url", "startPrice", "registeredDate", "bidCount"}}

SeqsUpTo(S, n) == UNION {[1..k -> S] : k \in 0..n}

Restrict(r, cols) == [c \in cols |-> r[c]]

NoFile == [exists |-> FALSE, columns |-> {}, rows |-> <<>>]

Files ==
    {NoFile}
    \cup {[exists |-> TRUE, columns |-> AllColumns, rows |-> rs] :
            rs \in SeqsUpTo(RowPool, MaxRows)}
    \cup {[exists |-> TRUE, columns |-> cs,
           rows |-> [i \in DOMAIN rs |-> Restrict(rs[i], cs)]] :
            cs \in ColumnSets, rs \in SeqsUpTo(SmallPool, MaxRows)}

-----------------------------------------------------------------------------
(* Step 1: load_data.                                                      *)

\* read_csv's type inference for one column: numeric when every non-empty
\* field parses as a number, text otherwise; an empty field is NaN.
ColumnIsNumeric(f, col) ==
    \A i \in DOMAIN f.rows : f.rows[i][col] = "" \/ f.rows[i][col] \in DOMAIN NumericLiteral

ParseField(f, col, s) ==
    IF s = "" THEN NaN
    ELSE IF ColumnIsNumeric(f, col) THEN Num(NumericLiteral[s])
    ELSE Str(s)

\* pd.read_csv(path, low_memory=False): rows labelled 0, 1, ...
read_csv(f) ==
    Table(f.columns,
          [i \in DOMAIN f.rows |->
              Row(i - 1, [c \in f.columns |-> ParseField(f, c, f.rows[i][c])])])

-----------------------------------------------------------------------------
(* Step 2: clean_data.                                                     *)

\* df.dropna(subset=...) on a frame that has the columns: the rows with no
\* missing value in the subset, order and labels kept.
dropna(t, subset) ==
    Table(t.columns,
          SelectSeq(t.rows, LAMBDA r : \A c \in subset : ~isna(r.cells[c])))

date_cols == {"startDate", "endDate", "registeredDate"}

numeric_cols ==
    {"price", "startPrice", "renewPrice", "bidCount", "ahrefsDomainRating",
     "alexaRanking", "umbrellaRanking", "backlinksCount", "cloudflareRanking",
     "estibotValue", "extensionsTaken", "keywordSearchCount", "lastSoldPrice"}

\* The loop over date_cols: every date column the frame has is coerced.
ConvertDates(t) ==
    Table(t.columns,
          [i \in DOMAIN t.rows |->
              Row(t.rows[i].idx,
                  [c \in t.columns |->
                      IF c \in date_cols THEN to_datetime(t.rows[i].cells[c])
                      ELSE t.rows[i].cells[c]])])

\* The loop over numeric_cols.
ConvertNumerics(t) ==
    Table(t.columns,
          [i \in DOMAIN t.rows |->
              Row(t.rows[i].idx,
                  [c \in t.columns |->
                      IF c \in numeric_cols THEN to_numeric(t.rows[i].cells[c])
                      ELSE t.rows[i].cells[c]])])

\* The columns of the two dropna calls.
RequiredBefore == {"price", "startPrice", "registeredDate"}
RequiredAfter == {"price", "bidCount"}

\* clean_data on a table: the frame it returns, or the KeyError dropna raises
\* for a subset column the frame does not have.
clean_data(t) ==
    IF ~(RequiredBefore \subseteq t.columns)
    THEN [exc |-> "KeyError", df |-> EmptyDataFrame]
    ELSE LET coerced == ConvertNumerics(ConvertDates(dropna(t, RequiredBefore)))
         IN  IF ~(RequiredAfter \subseteq t.columns)
             THEN [exc |-> "KeyError", df |-> EmptyDataFrame]
             ELSE [exc |-> "none", df |-> dropna(coerced, RequiredAfter)]

\* A call's effect: the heap after it, the reference it returns (0: None),
\* the exception it raises and what it prints.
Effect(h, ret, exc, out) == [heap |-> h, ret |-> ret, exc |-> exc, out |-> out]

CleanCallInPlace(h, ref) ==
    LET r == clean_data(h[ref])
    IN  IF r.exc = "none"
        THEN Effect([h EXCEPT ![ref] = r.df], ref, "none", <<>>)
        ELSE Effect(h, 0, r.exc, <<>>)

\* clean_data(df): dropna returns a new frame, the column assignments act on
\* that frame, and the frame returned is new; the argument is left alone.
CleanCall(h, ref) ==
    LET r == clean_data(h[ref])
    IN  IF r.exc = "none"
        THEN Effect(Append(h, r.df), Len(h) + 1, "none", <<>>)
        ELSE Effect(h, 0, r.exc, <<>>)

-----------------------------------------------------------------------------
(* Step 3: feature_engineering.                                            *)

current_year == 2026

\* The table with column col added (or replaced), one cell per row.
WithColumn(t, col, vals) ==
    Table(t.columns \cup {col},
          [i \in DOMAIN t.rows |->
              Row(t.rows[i].idx,
                  [c \in t.columns \cup {col} |->
                      IF c = col THEN vals[i] ELSE t.rows[i].cells[c]])])

\* len(x) if isinstance(x, str) else np.nan
domainLength(x) == IF x.t = "str" THEN Num(Len(x.s)) ELSE NaN

\* current_year - x.year if pd.notnull(x) else np.nan
domainAge(x) == IF ~isna(x) THEN Num(current_year - x.year) ELSE NaN

priceDiffSwapped(a, b) == IF isna(a) \/ isna(b) THEN NaN ELSE Num(b.n - a.n)

\* df['price'] - df['startPrice'] on one row of numeric columns
priceDiff(a, b) == IF isna(a) \/ isna(b) THEN NaN ELSE Num(a.n - b.n)

\* (df['endDate'] - df['startDate']).dt.days on one row of date columns
auctionDurationDays(e, s) == IF isna(e) \/ isna(s) THEN NaN ELSE Num(e.days - s.days)

ColumnCells(t, col) == {t.rows[i].cells[col] : i \in DOMAIN t.rows}

\* The four steps, each run only when its source columns exist.  A step
\* raises on a column that was not coerced: text has no .year, text cannot
\* be subtracted, and .dt needs dates.  The columns added before stay.
AddDomainLength(t) ==
    IF "url" \in t.columns
    THEN WithColumn(t, "domainLength",
                    [i \in DOMAIN t.rows |-> domainLength(t.rows[i].cells["url"])])
    ELSE t

DomainAgeRaises(t) ==
    /\ "registeredDate" \in t.columns
    /\ \E x \in ColumnCells(t, "registeredDate") : ~isna(x) /\ x.t # "date"

AddDomainAge(t) ==
    IF "registeredDate" \in t.columns
    THEN WithColumn(t, "domainAge",
                    [i \in DOMAIN t.rows |-> domainAge(t.rows[i].cells["registeredDate"])])
    ELSE t

PriceDiffRaises(t) ==
    /\ {"price", "startPrice"} \subseteq t.columns
    /\ \E x \in ColumnCells(t, "price") \cup ColumnCells(t, "startPrice") : x.t = "str"

AddPriceDiff(t) ==
    IF {"price", "startPrice"} \subseteq t.columns
    THEN WithColumn(t, "priceDiff",
                    [i \in DOMAIN t.rows |->
                        priceDiff(t.rows[i].cells["price"], t.rows[i].cells["startPrice"])])
    ELSE t

AuctionDurationRaises(t) ==
    /\ {"startDate", "endDate"} \subseteq t.columns
    /\ \E x \in ColumnCells(t, "startDate") \cup ColumnCells(t, "endDate") :
          x.t \notin {"date", "nat"}

AddAuctionDuration(t) ==
    IF {"startDate", "endDate"} \subseteq t.columns
    THEN WithColumn(t, "auctionDurationDays",
                    [i \in DOMAIN t.rows |->
                        auctionDurationDays(t.rows[i].cells["endDate"],
                                            t.rows[i].cells["startDate"])])
    ELSE t

feature_engineering(t) ==
    LET t1 == AddDomainLength(t)
    IN  IF DomainAgeRaises(t1) THEN [exc |-> "AttributeError", df |-> t1]
        ELSE LET t2 == AddDomainAge(t1)
             IN  IF PriceDiffRaises(t2) THEN [exc |-> "TypeError", df |-> t2]
                 ELSE LET t3 == AddPriceDiff(t2)
                      IN  IF AuctionDurationRaises(t3)
                          THEN [exc |-> "TypeError", df |-> t3]
                          ELSE [exc |-> "none", df |-> AddAuctionDuration(t3)]

\* feature_engineering(df): the columns are added to the argument itself,
\* which is also what is returned.
FeatureCall(h, ref) ==
    LET r == feature_engineering(h[ref])
    IN  Effect([h EXCEPT ![ref] = r.df],
               IF r.exc = "none" THEN ref ELSE 0, r.exc, <<>>)

-----------------------------------------------------------------------------
(* Step 4: basic_summary.                                                  *)

\* One printed item: a line of text (its pieces), or the rendering of a
\* frame or of a statistic of a frame.
Line(kind, text, frame) == [kind |-> kind, text |-> text, frame |-> frame]
Text(pieces) == Line("text", pieces, EmptyDataFrame)

\* df.select_dtypes(include=[np.number]): the columns holding numbers only.
NumericColumns(t) ==
    {c \in t.columns : \A x \in ColumnCells(t, c) : x.t \in {"num", "nan"}}

\* The statistics are rendered from the frame and its numeric columns; the
\* figures shown by plt.show() are left to the plotting library.
basic_summary(t) ==
    << Text(<<"===== BASIC INFO =====">>),
       Line("info", <<>>, Table(t.columns, <<>>)),
       Text(<<"None">>),
       Text(<<"\n===== DESCRIPTIVE STATISTICS =====">>),
       Line("describe", <<>>, Table(NumericColumns(t), <<>>)),
       Text(<<"\n===== CORRELATION MATRIX =====">>),
       Line("corr", <<>>, Table(NumericColumns(t), <<>>)) >>

\* basic_summary(df): reads the frame, prints, returns None.
SummaryCall(h, ref) == Effect(h, 0, "none", basic_summary(h[ref]))

-----------------------------------------------------------------------------
(* Step 5: suggest_domains.                                                *)

MissingColumnPriceOnly(t) == IF "price" \notin t.columns THEN "price" ELSE ""

\* The first of 'price', 'ahrefsDomainRating' the frame lacks ("" if none).
MissingColumn(t) ==
    IF "price" \notin t.columns THEN "price"
    ELSE IF "ahrefsDomainRating" \notin t.columns THEN "ahrefsDomainRating"
    ELSE ""

NotFound(col) == Text(<<"Column ", col, " not found in DataFrame.">>)

\* A comparison of a text column with a number raises TypeError.
CompareRaises(t) ==
    \E x \in ColumnCells(t, "price") \cup ColumnCells(t, "ahrefsDomainRating") :
        x.t = "str"

SelectedInclusive(cells, p, q) ==
    /\ ~isna(cells["price"]) /\ cells["price"].n <= p
    /\ ~isna(cells["ahrefsDomainRating"]) /\ cells["ahrefsDomainRating"].n >= q

\* (df['price'] < price_threshold) & (df['ahrefsDomainRating'] > rating_threshold)
\* on one row: a comparison with NaN is False.
Selected(cells, p, q) ==
    /\ ~isna(cells["price"]) /\ cells["price"].n < p
    /\ ~isna(cells["ahrefsDomainRating"]) /\ cells["ahrefsDomainRating"].n > q

\* df[mask]: the selected rows, order and labels kept.
Filter(t, p, q) ==
    Table(t.columns, SelectSeq(t.rows, LAMBDA r : Selected(r.cells, p, q)))

\* The rows in every order.
Reorderings(rows) ==
    {[i \in DOMAIN rows |-> rows[f[i]]] :
        f \in {g \in [DOMAIN rows -> DOMAIN rows] :
                  \A i, j \in DOMAIN rows : g[i] = g[j] => i = j}}

\* s is in descending order of column by, the missing values last.
Descending(s, by) ==
    \A i, j \in DOMAIN s :
        i < j => \/ isna(s[j].cells[by])
                 \/ ~isna(s[i].cells[by]) /\ s[i].cells[by].n >= s[j].cells[by].n

Ascending(s, by) ==
    \A i, j \in DOMAIN s :
        i < j => \/ isna(s[j].cells[by])
                 \/ ~isna(s[i].cells[by]) /\ s[i].cells[by].n <= s[j].cells[by].n

sort_values_ascending(rows, by) == {s \in Reorderings(rows) : Ascending(s, by)}

\* Of the rows with one value of the column, only the first is kept.
sort_values_unique(rows, by) ==
    {SelectSeq(s, LAMBDA r : \A k \in DOMAIN rows :
                    (rows[k].cells[by] = r.cells[by]) => rows[k].idx >= r.idx) :
        s \in {t \in Reorderings(rows) : Descending(t, by)}}

\* sort_values(by=..., ascending=False) with the default kind, 'quicksort',
\* which is not a stable sort: the rows in any order that is descending in
\* the column.
sort_values(rows, by) == {s \in Reorderings(rows) : Descending(s, by)}

StoreInPlace(h, ref, t) == Effect([h EXCEPT ![ref] = t], ref, "none", <<>>)

\* df[mask].copy() is a new frame; the sort acts on it and it is returned.
StoreCopy(h, ref, t) == Effect(Append(h, t), Len(h) + 1, "none", <<>>)

\* suggest_domains(df, price_threshold, rating_threshold): the effects the
\* call may have.
SuggestCall(h, ref, p, q) ==
    LET t == h[ref]
    IN  IF MissingColumn(t) # ""
        THEN {Effect(Append(h, EmptyDataFrame), Len(h) + 1, "none",
                     <<NotFound(MissingColumn(t))>>)}
        ELSE IF ~({"price", "ahrefsDomainRating"} \subseteq t.columns)
        THEN {Effect(h, 0, "KeyError", <<>>)}
        ELSE IF CompareRaises(t)
        THEN {Effect(h, 0, "TypeError", <<>>)}
        ELSE {StoreCopy(h, ref, Table(t.columns, s)) :
                 s \in sort_values(Filter(t, p, q).rows, "ahrefsDomainRating")}

-----------------------------------------------------------------------------
(* main().                                                                 *)

price_threshold == 500
rating_threshold == 20
HeadRows == 20

PrintColumns == {"url", "price", "ahrefsDomainRating", "domainLength", "domainAge"}

NoException == [at |-> "", exc |-> ""]
Exception(at, exc) == [at |-> at, exc |-> exc]

NoProbe == [fn |-> "none", ref |-> 0, p |-> 0, q |-> 0, arg |-> EmptyDataFrame,
            exc |-> "none", returned |-> FALSE, res |-> EmptyDataFrame, out |-> <<>>,
            after |-> EmptyDataFrame]

\* df.head(n)
head(t, n) ==
    Table(t.columns, SubSeq(t.rows, 1, IF Len(t.rows) < n THEN Len(t.rows) ELSE n))

\* suggested[[...]]: the frame restricted to the listed columns
Project(t, cols) ==
    Table(cols,
          [i \in DOMAIN t.rows |->
              Row(t.rows[i].idx, [c \in cols |-> t.rows[i].cells[c]])])

Init ==
    /\ csv \in Files
    /\ heap = <<>>
    /\ pc = "load"
    /\ df = 0
    /\ suggested = 0
    /\ stdout = <<>>
    /\ raised = NoException
    /\ probe = NoProbe

\* df = load_data(csv_file_path)
LoadData ==
    /\ pc = "load"
    /\ IF csv.exists
       THEN /\ heap' = Append(heap, read_csv(csv))
            /\ df' = Len(heap) + 1
            /\ pc' = "clean"
            /\ raised' = raised
       ELSE /\ pc' = "error"
            /\ raised' = Exception("load_data", "FileNotFoundError")
            /\ UNCHANGED <<heap, df>>
    /\ UNCHANGED <<csv, suggested, stdout, probe>>

\* df = clean_data(df)
CleanData ==
    /\ pc = "clean"
    /\ LET r == CleanCall(heap, df)
       IN  /\ heap' = r.heap
           /\ IF r.exc = "none"
              THEN df' = r.ret /\ pc' = "feature" /\ raised' = raised
              ELSE df' = df /\ pc' = "error" /\ raised' = Exception("clean_data", r.exc)
    /\ UNCHANGED <<csv, suggested, stdout, probe>>

\* df = feature_engineering(df)
FeatureEngineering ==
    /\ pc = "feature"
    /\ LET r == FeatureCall(heap, df)
       IN  /\ heap' = r.heap
           /\ IF r.exc = "none"
              THEN df' = r.ret /\ pc' = "summary" /\ raised' = raised
              ELSE /\ df' = df
                   /\ pc' = "error"
                   /\ raised' = Exception("feature_engineering", r.exc)
    /\ UNCHANGED <<csv, suggested, stdout, probe>>

\* basic_summary(df)
BasicSummary ==
    /\ pc = "summary"
    /\ LET r == SummaryCall(heap, df)
       IN  /\ heap' = r.heap
           /\ stdout' = stdout \o r.out
    /\ pc' = "suggest"
    /\ UNCHANGED <<csv, df, suggested, raised, probe>>

\* suggested = suggest_domains(df, price_threshold=500, rating_threshold=20)
SuggestDomains ==
    /\ pc = "suggest"
    /\ \E r \in SuggestCall(heap, df, price_threshold, rating_threshold) :
          /\ heap' = r.heap
          /\ stdout' = stdout \o r.out
          /\ IF r.exc = "none"
             THEN suggested' = r.ret /\ pc' = "print" /\ raised' = raised
             ELSE /\ suggested' = suggested
                  /\ pc' = "error"
                  /\ raised' = Exception("suggest_domains", r.exc)
    /\ UNCHANGED <<csv, df, probe>>

\* The two prints that end main(): the header, then the five columns of the
\* first 20 suggested rows; selecting a column the frame lacks is a KeyError.
PrintSuggested ==
    /\ pc = "print"
    /\ LET header == Text(<<"\n===== SUGGESTED DOMAINS (Heuristic Example) =====">>)
       IN  IF PrintColumns \subseteq heap[suggested].columns
           THEN /\ stdout' = stdout \o
                       <<header,
                         Line("frame", <<>>,
                              head(Project(heap[suggested], PrintColumns), HeadRows))>>
                /\ pc' = "done"
                /\ raised' = raised
           ELSE /\ stdout' = Append(stdout, header)
                /\ pc' = "error"
                /\ raised' = Exception("print", "KeyError")
    /\ UNCHANGED <<csv, heap, df, suggested, probe>>

-----------------------------------------------------------------------------
(* Direct calls of the module's functions on a frame that exists, as an    *)
(* importer of the module makes them.  Nobody keeps the frame a direct     *)
(* call returns: probe records the call, the heap keeps the frames that    *)
(* existed before it.  A direct call changes nothing main() reads, so one  *)
(* behaviour records one of them: whatever call could follow it could be   *)
(* made in its place.                                                      *)

PriceThresholds == {price_threshold, 600}
RatingThresholds == {rating_threshold, 30}

Kept(h, n) == SubSeq(h, 1, n)

Probed(fn, ref, p, q, r) ==
    [fn |-> fn, ref |-> ref, p |-> p, q |-> q, arg |-> heap[ref],
     exc |-> r.exc, returned |-> r.ret # 0,
     res |-> IF r.ret # 0 THEN r.heap[r.ret] ELSE EmptyDataFrame,
     out |-> r.out, after |-> r.heap[ref]]

\* clean_data(frame)
ProbeClean ==
    /\ probe = NoProbe
    /\ \E ref \in DOMAIN heap :
          LET r == CleanCall(heap, ref)
          IN  /\ probe' = Probed("clean_data", ref, 0, 0, r)
              /\ heap' = Kept(r.heap, Len(heap))
    /\ UNCHANGED <<csv, pc, df, suggested, stdout, raised>>

\* suggest_domains(frame, p, q)
ProbeSuggest ==
    /\ probe = NoProbe
    /\ \E ref \in DOMAIN heap, p \in PriceThresholds, q \in RatingThresholds :
          \E r \in SuggestCall(heap, ref, p, q) :
              /\ probe' = Probed("suggest_domains", ref, p, q, r)
              /\ heap' = Kept(r.heap, Len(heap))
    /\ UNCHANGED <<csv, pc, df, suggested, stdout, raised>>

Next ==
    \/ LoadData
    \/ CleanData
    \/ FeatureEngineering
    \/ BasicSummary
    \/ SuggestDomains
    \/ PrintSuggested
    \/ ProbeClean
    \/ ProbeSuggest

Spec == Init /\ [][Next]_vars

-----------------------------------------------------------------------------
(* Properties.                                                             *)

\* main() has the frame clean_data returned, and nothing has touched it yet.
Cleaned == pc = "feature"

\* main() has called suggest_domains and it returned.
Suggested == pc \in {"print", "done"} \/ (pc = "error" /\ raised.at = "print")

\* The file as loaded: the argument of main()'s call of clean_data.
Loaded == read_csv(csv)

Defined(x) == x.t \notin {"nan", "nat"}

\* A direct call of clean_data on the frame main()'s call of it returned.
CleanedAgain == Cleaned /\ probe.fn = "clean_data" /\ probe.ref = df

\* C1: clean_data is idempotent: clean_data applied to the frame clean_data
\* returned gives a frame with the same rows and the same cell values.
C1_CleanIdempotent ==
    CleanedAgain => probe.returned /\ probe.res = heap[df]

\* C2: every row of the frame clean_data returns has price, startPrice and
\* bidCount present as numbers and registeredDate present as a date.
C2_RequiredFields ==
    Cleaned =>
        \A i \in DOMAIN heap[df].rows :
            LET x == heap[df].rows[i].cells
            IN  /\ x["price"].t = "num"
                /\ x["startPrice"].t = "num"
                /\ x["bidCount"].t = "num"
                /\ x["registeredDate"].t = "date"

\* The rows of c are distinct rows of t, with the cells of t in every column
\* that is in neither coercion list, and the columns are those of t.
RowSubset(t, c) ==
    /\ c.columns = t.columns
    /\ Len(c.rows) <= Len(t.rows)
    /\ \A i, k \in DOMAIN c.rows : c.rows[i].idx = c.rows[k].idx => i = k
    /\ \A i \in DOMAIN c.rows :
          \E j \in DOMAIN t.rows :
              /\ t.rows[j].idx = c.rows[i].idx
              /\ \A col \in t.columns \ (date_cols \cup numeric_cols) :
                    c.rows[i].cells[col] = t.rows[j].cells[col]

\* C3: the frame clean_data returns has the columns of its argument, no more
\* rows, each row a distinct row of the argument with the argument's values
\* in the columns that are not coerced, and the argument is left as it was.
C3_RowSubset ==
    /\ Cleaned => heap[1] = Loaded /\ df # 1 /\ RowSubset(Loaded, heap[df])
    /\ (probe.fn = "clean_data" /\ probe.returned) =>
          probe.after = probe.arg /\ RowSubset(probe.arg, probe.res)

C3_Witness ==
    /\ Cleaned
    /\ Len(heap[df].rows) = 1
    /\ Len(Loaded.rows) = 2
    /\ \E i \in DOMAIN Loaded.rows : Loaded.rows[i].cells["price"].t = "str"
    /\ heap[df].rows[1].cells["url"].t = "str"

\* r holds exactly the rows of t whose price and rating are both defined,
\* with price < p and rating > q, each once and as it is in t.
SelectionLaw(t, r, p, q) ==
    /\ r.columns = t.columns
    /\ \A i \in DOMAIN r.rows : \E j \in DOMAIN t.rows : r.rows[i] = t.rows[j]
    /\ \A j \in DOMAIN t.rows :
          LET x == t.rows[j].cells
              n == Cardinality({i \in DOMAIN r.rows : r.rows[i].idx = t.rows[j].idx})
          IN  IF /\ Defined(x["price"]) /\ Defined(x["ahrefsDomainRating"])
                 /\ x["price"].n < p /\ x["ahrefsDomainRating"].n > q
              THEN n = 1
              ELSE n = 0

HasFilterColumns(t) == {"price", "ahrefsDomainRating"} \subseteq t.columns

\* The direct call of suggest_domains returned the filtered frame.
ProbeSuggested ==
    probe.fn = "suggest_domains" /\ probe.returned /\ HasFilterColumns(probe.arg)

\* C4: a row is in suggest_domains(T, p, q) if and only if its price and its
\* rating are defined, price < p and rating > q; no row is there twice.
C4_Selection ==
    /\ (Suggested /\ HasFilterColumns(heap[df])) =>
          SelectionLaw(heap[df], heap[suggested], price_threshold, rating_threshold)
    /\ ProbeSuggested => SelectionLaw(probe.arg, probe.res, probe.p, probe.q)

C4_Witness ==
    /\ ProbeSuggested
    /\ Len(probe.arg.rows) = 2
    /\ Len(probe.res.rows) = 1
    /\ \E j \in DOMAIN probe.arg.rows :
          LET x == probe.arg.rows[j].cells
          IN  Defined(x["price"]) /\ Defined(x["ahrefsDomainRating"]) /\
              (x["price"].n = probe.p \/ x["ahrefsDomainRating"].n = probe.q)

NonIncreasing(r) ==
    \A i \in 1..(Len(r.rows) - 1) :
        r.rows[i].cells["ahrefsDomainRating"].n >= r.rows[i + 1].cells["ahrefsDomainRating"].n

\* C5: the rows of suggest_domains(T, p, q) are in non-increasing order of
\* ahrefsDomainRating.
C5_Ordering ==
    /\ (Suggested /\ HasFilterColumns(heap[df])) => NonIncreasing(heap[suggested])
    /\ ProbeSuggested => NonIncreasing(probe.res)

C5_Witness ==
    /\ Suggested
    /\ Len(heap[suggested].rows) = 2
    /\ heap[suggested].rows[1].idx > heap[suggested].rows[2].idx
    /\ heap[suggested].rows[1].cells["ahrefsDomainRating"].n >
          heap[suggested].rows[2].cells["ahrefsDomainRating"].n

\* Two rows of r with one rating are in the order they have in t (the
\* labels of t increase along t).
TiesInInputOrder(r) ==
    \A i, k \in DOMAIN r.rows :
        (i < k /\ r.rows[i].cells["ahrefsDomainRating"] = r.rows[k].cells["ahrefsDomainRating"])
            => r.rows[i].idx < r.rows[k].idx

\* C6 as claimed: two result rows with equal ahrefsDomainRating keep the
\* relative order they have in the input.
C6_TieStable ==
    /\ (Suggested /\ HasFilterColumns(heap[df])) => TiesInInputOrder(heap[suggested])
    /\ ProbeSuggested => TiesInInputOrder(probe.res)

\* Every two selected rows of t with one rating are both in r, once each.
TiesKept(t, r, p, q) ==
    \A j, k \in DOMAIN t.rows :
        LET x == t.rows[j].cells
            y == t.rows[k].cells
        IN  (/\ j # k
             /\ Defined(x["price"]) /\ Defined(x["ahrefsDomainRating"])
             /\ Defined(y["price"]) /\ Defined(y["ahrefsDomainRating"])
             /\ x["price"].n < p /\ y["price"].n < p
             /\ x["ahrefsDomainRating"].n > q
             /\ x["ahrefsDomainRating"] = y["ahrefsDomainRating"])
            => /\ Cardinality({i \in DOMAIN r.rows : r.rows[i] = t.rows[j]}) = 1
               /\ Cardinality({i \in DOMAIN r.rows : r.rows[i] = t.rows[k]}) = 1

\* C6 as amended: two selected rows with equal ahrefsDomainRating are both
\* in the result, once each and unchanged, in either relative order.
C6_TiesKept ==
    /\ (Suggested /\ HasFilterColumns(heap[df])) =>
          TiesKept(heap[df], heap[suggested], price_threshold, rating_threshold)
    /\ ProbeSuggested => TiesKept(probe.arg, probe.res, probe.p, probe.q)

\* Two rows with one rating, returned against their input order.
C6_Witness ==
    /\ Suggested
    /\ Len(heap[suggested].rows) = 2
    /\ heap[suggested].rows[1].cells["ahrefsDomainRating"] =
          heap[suggested].rows[2].cells["ahrefsDomainRating"]
    /\ heap[suggested].rows[1].idx > heap[suggested].rows[2].idx

\* C7: on a frame that lacks price or ahrefsDomainRating, suggest_domains
\* raises nothing, returns a frame with no rows and prints a message naming
\* a column the frame lacks.
C7_Degradation ==
    /\ (probe.fn = "suggest_domains" /\ ~HasFilterColumns(probe.arg)) =>
          /\ probe.exc = "none"
          /\ probe.returned
          /\ probe.res.rows = <<>>
          /\ \E c \in {"price", "ahrefsDomainRating"} \ probe.arg.columns :
                \E i \in DOMAIN probe.out :
                    probe.out[i].text = <<"Column ", c, " not found in DataFrame.">>
    /\ (df # 0 /\ ~HasFilterColumns(heap[df])) => raised.at # "suggest_domains"
    /\ (Suggested /\ ~HasFilterColumns(heap[df])) =>
          /\ heap[suggested].rows = <<>>
          /\ \E c \in {"price", "ahrefsDomainRating"} \ heap[df].columns :
                \E i \in DOMAIN stdout :
                    stdout[i].text = <<"Column ", c, " not found in DataFrame.">>

C7_Witness ==
    /\ probe.fn = "suggest_domains"
    /\ "ahrefsDomainRating" \notin probe.arg.columns
    /\ "price" \in probe.arg.columns
    /\ Len(probe.arg.rows) = 2
    /\ probe.p = 600
    /\ probe.returned

\* C8: once the finalized frame exists, a frame that lacks ahrefsDomainRating
\* does not end main() in an error: the run goes on to print the suggested
\* rows.
C8_RunContinues ==
    (/\ df # 0
     /\ raised.at \notin {"load_data", "clean_data", "feature_engineering"}
     /\ "ahrefsDomainRating" \notin heap[df].columns)
        => pc # "error"

\* What the derived columns of a row with cells x are to be.
ExpectedDomainLength(x) ==
    IF Defined(x["url"]) THEN Num(Len(x["url"].s)) ELSE NaN
ExpectedDomainAge(x) ==
    IF Defined(x["registeredDate"]) THEN Num(current_year - x["registeredDate"].year) ELSE NaN
ExpectedPriceDiff(x) ==
    IF Defined(x["price"]) /\ Defined(x["startPrice"])
    THEN Num(x["price"].n - x["startPrice"].n) ELSE NaN
ExpectedAuctionDuration(x) ==
    IF Defined(x["startDate"]) /\ Defined(x["endDate"])
    THEN Num(x["endDate"].days - x["startDate"].days) ELSE NaN

Derives(t, f) ==
    /\ Len(f.rows) = Len(t.rows)
    /\ \A i \in DOMAIN t.rows :
          LET x == t.rows[i].cells
              y == f.rows[i].cells
          IN  /\ f.rows[i].idx = t.rows[i].idx
              /\ \A c \in t.columns : y[c] = x[c]
              /\ "url" \in t.columns => y["domainLength"] = ExpectedDomainLength(x)
              /\ "registeredDate" \in t.columns => y["domainAge"] = ExpectedDomainAge(x)
              /\ {"price", "startPrice"} \subseteq t.columns =>
                    y["priceDiff"] = ExpectedPriceDiff(x)
              /\ {"startDate", "endDate"} \subseteq t.columns =>
                    y["auctionDurationDays"] = ExpectedAuctionDuration(x)

\* C9: on the frame clean_data returned, feature_engineering raises nothing,
\* keeps every row in its place, and gives each derived column the undefined
\* marker exactly in the rows where a source value is undefined and the
\* value of its formula in the others.
C9_FeaturePropagation ==
    [][(pc = "feature" /\ pc' # "feature") =>
          /\ pc' = "summary"
          /\ df' = df
          /\ Derives(heap[df], heap'[df'])]_vars

C9_Witness ==
    /\ pc = "summary"
    /\ \E i, j \in DOMAIN heap[df].rows :
          /\ heap[df].rows[i].cells["priceDiff"] = NaN
          /\ heap[df].rows[i].cells["domainLength"] = Num(6)
          /\ heap[df].rows[j].cells["priceDiff"] = Num(20)
          /\ heap[df].rows[j].cells["auctionDurationDays"] = Num(10)

\* C10: basic_summary and suggest_domains leave every frame that exists as
\* it is, the finalized frame among them: its rows, their order, its columns
\* and its cells are the same after the call as before.
C10_ReadOnly ==
    [][(\/ pc \in {"summary", "suggest"}
        \/ (probe' # probe /\ probe'.fn = "suggest_domains"))
          => /\ df' = df
             /\ \A i \in DOMAIN heap : heap'[i] = heap[i]]_vars

\* The sort moved a row of the frame returned, and the finalized frame has
\* its rows in their order.
C10_Witness ==
    /\ pc = "done"
    /\ Len(heap[df].rows) = 2
    /\ heap[df].rows[1].idx < heap[df].rows[2].idx
    /\ Len(heap[suggested].rows) = 2
    /\ heap[suggested].rows[1].idx > heap[suggested].rows[2].idx

====
